---- MODULE Spec2Model ----
(***************************************************************************)
(* Shot geometry / expected-goals estimator (01_building_xg_model.ipynb)   *)
(* and Poisson match simulator                                              *)
(* (04_randomness_and_prediction_of_matches.ipynb).                         *)
(*                                                                          *)
(* Number representation.  The notebooks compute with IEEE doubles; the     *)
(* model computes with integers:                                            *)
(*   - a pitch coordinate is an integer number of 2/35 coordinate points,   *)
(*     so the literal 100 is Hundred = 1750 and the literal 50 is           *)
(*     Fifty = 875;                                                         *)
(*   - a length is an integer number of 1/350 metre (LenPerCoord = 20 of    *)
(*     them per coordinate unit and metre); on this grid the transformed    *)
(*     coordinates, their squares and the arctangent's numerator and        *)
(*     denominator are exact, and the grid holds points of the circle on    *)
(*     which the denominator vanishes;                                      *)
(*   - an angle is an integer number of micro-radians, a probability an     *)
(*     integer number of millionths, a coefficient, linear sum or rate an   *)
(*     integer number of thousandths.                                       *)
(* sqrt, arctan and exp round to that resolution.  Where a double           *)
(* saturates (exp overflowing to inf, 1 + e rounding to 1) the model        *)
(* saturates at the double's threshold, not at the fixed-point one.         *)
(***************************************************************************)
EXTENDS Integers, Sequences, FiniteSets, TLC

(***************************************************************************)
(* Integer helpers                                                          *)
(***************************************************************************)
Abs(n) == IF n < 0 THEN -n ELSE n

Min(a, b) == IF a < b THEN a ELSE b

Max(a, b) == IF a > b THEN a ELSE b

Pow2(n) ==
    <<1, 2, 4, 8, 16, 32, 64, 128, 256, 512, 1024, 2048, 4096, 8192, 16384,
      32768, 65536, 131072, 262144, 524288, 1048576, 2097152, 4194304,
      8388608, 16777216, 33554432, 67108864, 134217728, 268435456>>[n + 1]

RECURSIVE Pow10(_)
Pow10(n) == IF n = 0 THEN 1 ELSE 10 * Pow10(n - 1)

(* n * 10^digits / d rounded down, by long division; 0 <= n, 0 < d, and    *)
(* d below 2^31 / 10.                                                        *)
RECURSIVE LongDiv(_, _, _)
LongDiv(n, d, digits) ==
    IF digits = 0 THEN n \div d
    ELSE (n \div d) * Pow10(digits) + LongDiv(10 * (n % d), d, digits - 1)

(* Newton iteration for the integer square root, from above.                *)
RECURSIVE SqrtIter(_, _)
SqrtIter(n, r) ==
    LET s == (r + n \div r) \div 2
    IN  IF s >= r THEN r ELSE SqrtIter(n, s)

(* np.sqrt: the square root rounded to the nearest unit.                    *)
Sqrt(n) ==
    IF n = 0 THEN 0
    ELSE LET r == SqrtIter(n, 46340)
         IN  IF n - r * r > r THEN r + 1 ELSE r

(***************************************************************************)
(* np.arctan, in micro-radians                                              *)
(***************************************************************************)
Pi == 3141593

HalfPiFloor == 1570796

(* atan(2^-i) in units of 1e-8 radian, i = 0, 1, ...                        *)
AtanTable == <<78539816, 46364761, 24497866, 12435499, 6241881, 3123983,
               1562373, 781234, 390623, 195312, 97656, 48828, 24414, 12207,
               6104, 3052, 1526, 763, 381, 191, 95, 48, 24, 12, 6, 3, 1>>

(* CORDIC in vectoring mode: rotates (cx, cy), cx > 0, onto the x axis and  *)
(* accumulates the rotation in z.                                           *)
RECURSIVE Cordic(_, _, _, _)
Cordic(cx, cy, z, i) ==
    IF i = Len(AtanTable) \/ cy = 0 THEN z
    ELSE IF cy > 0
         THEN Cordic(cx + cy \div Pow2(i), cy - cx \div Pow2(i),
                     z + AtanTable[i + 1], i + 1)
         ELSE Cordic(cx + (-cy) \div Pow2(i), cy + cx \div Pow2(i),
                     z - AtanTable[i + 1], i + 1)

(* Scales the pair (a, b), a, b >= 0 and not both 0, so that the larger is  *)
(* in [2^27, 2^28): CORDIC then neither overflows nor loses precision.      *)
RECURSIVE Normalise(_, _)
Normalise(a, b) ==
    IF Max(a, b) >= 268435456 THEN Normalise(a \div 2, b \div 2)
    ELSE IF Max(a, b) < 134217728 THEN Normalise(2 * a, 2 * b)
    ELSE <<a, b>>

(* arctan(num / den) for den # 0.  The arctangent of a finite non-zero      *)
(* argument is non-zero, has the argument's sign and is of magnitude below  *)
(* pi/2.                                                                    *)
ArcTan(num, den) ==
    IF num = 0 THEN 0
    ELSE LET v   == Normalise(Abs(den), Abs(num))
             z   == IF v[1] = 0 THEN HalfPiFloor * 100
                    ELSE Cordic(v[1], v[2], 0, 0)
             mag == Max(1, Min(HalfPiFloor, (z + 50) \div 100))
         IN  IF (num < 0) = (den < 0) THEN mag ELSE -mag

(***************************************************************************)
(* Shot geometry (01_building_xg_model.ipynb)                               *)
(***************************************************************************)
Hundred == 1750

Fifty == 875

LenPerCoord == 20

GoalWidth == 2562

(* The transformation without the absolute value.                           *)
transform_coordinates_signed(x, y) ==
    LET m_x == Hundred - x
        c   == y - Fifty
    IN  <<(m_x * 105 * LenPerCoord) \div 100, (c * 65 * LenPerCoord) \div 100>>

(* The transformation with the absolute value taken before centring.       *)
transform_coordinates_abs_first(x, y) ==
    LET m_x == Hundred - x
        c   == Abs(y) - Fifty
    IN  <<(m_x * 105 * LenPerCoord) \div 100, (c * 65 * LenPerCoord) \div 100>>

(* The transformation with the pitch's length and width exchanged.          *)
transform_coordinates_swapped(x, y) ==
    LET m_x == Hundred - x
        c   == Abs(y - Fifty)
    IN  <<(m_x * 65 * LenPerCoord) \div 100, (c * 105 * LenPerCoord) \div 100>>

transform_coordinates_for_computation(x, y) ==
    LET m_x == Hundred - x
        c   == Abs(y - Fifty)
    IN  <<(m_x * 105 * LenPerCoord) \div 100, (c * 65 * LenPerCoord) \div 100>>

(* The distance along the pitch's long axis only.                           *)
compute_shot_distance_x_only(x, y) ==
    LET t == transform_coordinates_for_computation(x, y)
    IN  Sqrt(t[1] * t[1])

compute_shot_distance(x, y) ==
    LET t == transform_coordinates_for_computation(x, y)
    IN  Sqrt(t[1] * t[1] + t[2] * t[2])

(* The argument of the arctangent, as numerator and denominator.            *)
ArcTanArg(x, y) ==
    LET t == transform_coordinates_for_computation(x, y)
    IN  [num |-> GoalWidth * t[1],
         den |-> t[1] * t[1] + t[2] * t[2]
                   - (GoalWidth \div 2) * (GoalWidth \div 2)]

(* The angle with pi added to a raw arctangent of zero as well.            *)
compute_shot_angle_nonpositive(x, y) ==
    LET a == ArcTanArg(x, y)
    IN  IF a.den = 0
        THEN [status |-> "ZeroDivisionError", raw |-> 0, angle |-> 0]
        ELSE LET raw == ArcTan(a.num, a.den)
             IN  [status |-> "ok", raw |-> raw,
                  angle |-> IF raw <= 0 THEN Pi + raw ELSE raw]

(* The angle without the branch correction.                                 *)
compute_shot_angle_uncorrected(x, y) ==
    LET a == ArcTanArg(x, y)
    IN  IF a.den = 0
        THEN [status |-> "ZeroDivisionError", raw |-> 0, angle |-> 0]
        ELSE LET raw == ArcTan(a.num, a.den)
             IN  [status |-> "ok", raw |-> raw, angle |-> raw]

(* Dividing by a zero float raises ZeroDivisionError.                       *)
compute_shot_angle(x, y) ==
    LET a == ArcTanArg(x, y)
    IN  IF a.den = 0
        THEN [status |-> "ZeroDivisionError", raw |-> 0, angle |-> 0]
        ELSE LET raw == ArcTan(a.num, a.den)
             IN  [status |-> "ok", raw |-> raw,
                  angle |-> IF raw < 0 THEN Pi + raw ELSE raw]

(***************************************************************************)
(* np.exp                                                                   *)
(***************************************************************************)
ExpScale == 100000000

(* e^-1 in units of 1/ExpScale.                                             *)
ExpMinusOne == 36787944

(* The product of two numbers given in units of 1/ExpScale, in the same     *)
(* unit and rounded to nearest; a, b >= 0 and (a / 10^4) * (b / 10^4)       *)
(* below 2^31.                                                              *)
FMul(a, b) ==
    LET ah == a \div 10000
        al == a % 10000
        bh == b \div 10000
        bl == b % 10000
    IN  ah * bh + (ah * bl + al * bh + (al * bl) \div 10000 + 5000) \div 10000

(* The Taylor series of e^(-f/10^6), 0 <= f < 10^6, from term n on.         *)
RECURSIVE ExpSeries(_, _, _)
ExpSeries(f, n, term) ==
    IF term = 0 THEN 0
    ELSE term - ExpSeries(f, n + 1, FMul(term, f * 100) \div (n + 1))

RECURSIVE ExpNegInt(_, _)
ExpNegInt(v, k) ==
    IF k = 0 \/ v = 0 THEN v
    ELSE ExpNegInt(FMul(v, ExpMinusOne), k - 1)

(* e^(-a/10^6) for a >= 0, in units of 1/ExpScale.                          *)
ExpNeg(a) == ExpNegInt(ExpSeries(a % 1000000, 0, ExpScale), a \div 1000000)

(* np.exp(t/1000) for a double t/1000 is inf above ExpOverflow/1000, and    *)
(* 1 + np.exp(t/1000) rounds to 1.0 from -OnePlusEps/1000 downwards.        *)
ExpOverflow == 709782

OnePlusEps == 36737

(* np.exp(t/1000) as the fraction num/den; den = 0 stands for a finite      *)
(* value above ExpScale.                                                    *)
np_exp(t) ==
    IF t > ExpOverflow THEN [inf |-> TRUE, num |-> 1, den |-> 0]
    ELSE IF t <= 0
    THEN [inf |-> FALSE, num |-> ExpNeg(1000 * Min(-t, 1000000)),
          den |-> ExpScale]
    ELSE [inf |-> FALSE, num |-> ExpScale, den |-> ExpNeg(1000 * t)]

(***************************************************************************)
(* Loading the match ids (01_building_xg_model.ipynb)                       *)
(***************************************************************************)
(* [match["match_id"] for match in matches]                                 *)
MatchIdsOf(matches) == [k \in 1..Len(matches) |-> matches[k].match_id]

RECURSIVE get_competition_match_ids(_, _)
(* The loop with match_ids emptied at the start of each season file.        *)
get_competition_match_ids_last_season(season_fns, files) ==
    IF season_fns = << >> THEN << >>
    ELSE MatchIdsOf(files[season_fns[Len(season_fns)]])

(* season_fns: the listing of the competition's directory, in the order     *)
(* os.listdir returns it; files: the matches each season file lists.        *)
get_competition_match_ids(season_fns, files) ==
    IF season_fns = << >> THEN << >>
    ELSE MatchIdsOf(files[season_fns[1]])
           \o get_competition_match_ids(Tail(season_fns), files)

(***************************************************************************)
(* Serving the xG model (01_building_xg_model.ipynb)                        *)
(***************************************************************************)
One == 1000000

UnitsPerMetre == 350

(* The sigmoid with the sign of the exponent lost.                          *)
SigmoidPlus(linear_sum) ==
    LET e == np_exp(linear_sum)
    IN  IF e.inf THEN 0
        ELSE IF linear_sum <= -OnePlusEps THEN One
        ELSE Max(1, Min(One - 1, LongDiv(e.den, e.den + e.num, 6)))

(* 1 / (1 + np.exp(-1 * linear_sum)) in millionths: 0 when the exponential  *)
(* is inf, One when 1 + exp rounds to 1.0, strictly between otherwise.      *)
Sigmoid(linear_sum) ==
    LET e == np_exp(-1 * linear_sum)
    IN  IF e.inf THEN 0
        ELSE IF -1 * linear_sum <= -OnePlusEps THEN One
        ELSE Max(1, Min(One - 1, LongDiv(e.den, e.den + e.num, 6)))

(* ab / c rounded towards zero, for ab of either sign and c > 0.             *)
SDiv(ab, c) == IF ab < 0 THEN -((-ab) \div c) ELSE ab \div c

(* The linear sum with each coefficient on the other feature.               *)
LinearSumCrossed(model_params, shot_dist, shot_ang) ==
    model_params.Intercept
      + SDiv(shot_dist * model_params.angle, UnitsPerMetre)
      + SDiv((shot_ang \div 1000) * model_params.dist
               + SDiv((shot_ang % 1000) * model_params.dist, 1000), 1000)

(* model_params["Intercept"] + shot_dist * model_params["dist"]             *)
(*                           + shot_ang * model_params["angle"]             *)
(* in thousandths; the angle is split so that no product leaves 32 bits.    *)
LinearSum(model_params, shot_dist, shot_ang) ==
    model_params.Intercept
      + SDiv(shot_dist * model_params.dist, UnitsPerMetre)
      + SDiv((shot_ang \div 1000) * model_params.angle
               + SDiv((shot_ang % 1000) * model_params.angle, 1000), 1000)

(* The labels of the parameter Series of the fit of "is_goal ~ dist + angle", *)
(* in the order of the Series.                                              *)
ParamIndex == <<"Intercept", "dist", "angle">>

(* pickle.dump of a parameter Series: its index and its values, position by *)
(* position.                                                                *)
pickle_dump(params) ==
    [index  |-> ParamIndex,
     values |-> [i \in 1..Len(ParamIndex) |-> params[ParamIndex[i]]]]

(* series[label] with the labels dist and angle exchanged.                  *)
SeriesGetExchanged(series, label) ==
    LET other == IF label = "dist" THEN "angle"
                 ELSE IF label = "angle" THEN "dist" ELSE label
    IN  series.values[CHOOSE i \in 1..Len(series.index) :
                          series.index[i] = other]

(* series[label]: the value at the position of the label in the index.      *)
SeriesGet(series, label) ==
    series.values[CHOOSE i \in 1..Len(series.index) : series.index[i] = label]

(* pickle.load of a pickled Series, read through its labels.                *)
pickle_load(pickled) ==
    [Intercept |-> SeriesGet(pickled, "Intercept"),
     dist      |-> SeriesGet(pickled, "dist"),
     angle     |-> SeriesGet(pickled, "angle")]

BaselineModelFn == "baseline_logistic_model.pkl"

(* compute_xg reading the baseline file whatever model_fn is.               *)
compute_xg_baseline_only(x, y, model_fn, files) ==
    LET shot_dist == compute_shot_distance(x, y)
        shot_ang  == compute_shot_angle(x, y)
    IN  IF shot_ang.status # "ok"
        THEN [status |-> shot_ang.status]
        ELSE IF BaselineModelFn \notin DOMAIN files
        THEN [status |-> "FileNotFoundError"]
        ELSE LET model_params == pickle_load(files[BaselineModelFn])
                 linear_sum   == LinearSum(model_params, shot_dist,
                                           shot_ang.angle)
             IN  [status |-> "ok", dist |-> shot_dist,
                  angle |-> shot_ang.angle, params |-> model_params,
                  linear_sum |-> linear_sum, xg |-> Sigmoid(linear_sum)]

(* files: the model directory, a function from the names of the files it    *)
(* holds to their pickled content.                                          *)
compute_xg(x, y, model_fn, files) ==
    LET shot_dist == compute_shot_distance(x, y)
        shot_ang  == compute_shot_angle(x, y)
    IN  IF shot_ang.status # "ok"
        THEN [status |-> shot_ang.status]
        ELSE IF model_fn \notin DOMAIN files
        THEN [status |-> "FileNotFoundError"]
        ELSE LET model_params == pickle_load(files[model_fn])
                 linear_sum   == LinearSum(model_params, shot_dist,
                                           shot_ang.angle)
             IN  [status |-> "ok", dist |-> shot_dist,
                  angle |-> shot_ang.angle, params |-> model_params,
                  linear_sum |-> linear_sum, xg |-> Sigmoid(linear_sum)]

save_model_keep_first(params, model_fn, files) ==
    [f \in DOMAIN files \cup {model_fn} |->
        IF f \in DOMAIN files THEN files[f] ELSE pickle_dump(params)]

(* open(..., "wb") creates the file or truncates the one that is there,    *)
(* and pickle.dump writes the record into it.                              *)
save_model(params, model_fn, files) ==
    [f \in DOMAIN files \cup {model_fn} |->
        IF f = model_fn THEN pickle_dump(params) ELSE files[f]]

(***************************************************************************)
(* Poisson goal model (04_randomness_and_prediction_of_matches.ipynb)       *)
(***************************************************************************)
(* The rows of the first frame of the concat: one per match, for the home   *)
(* side.                                                                    *)
HomeRows(matches) ==
    [k \in 1..Len(matches) |->
        [team |-> matches[k].HomeTeam, opponent |-> matches[k].AwayTeam,
         goals |-> matches[k].HomeGoals, home |-> 1]]

(* The away rows with the home side's goals.                                *)
AwayRowsHomeGoals(matches) ==
    [k \in 1..Len(matches) |->
        [team |-> matches[k].AwayTeam, opponent |-> matches[k].HomeTeam,
         goals |-> matches[k].HomeGoals, home |-> 0]]

(* The rows of the second frame: one per match, for the away side.          *)
AwayRows(matches) ==
    [k \in 1..Len(matches) |->
        [team |-> matches[k].AwayTeam, opponent |-> matches[k].HomeTeam,
         goals |-> matches[k].AwayGoals, home |-> 0]]

(* pd.concat of the two frames.                                             *)
GoalModelData(matches) == HomeRows(matches) \o AwayRows(matches)

(* The levels of a categorical column of the training table.                *)
Levels(data, column) == {data[k][column] : k \in 1..Len(data)}

(* The alphabetical order of the team names; the first level of a column    *)
(* is the reference level, whose coefficient is fixed at 0.                 *)
TeamOrder == <<"Arsenal", "Liverpool", "Man City">>

Rank(team) == CHOOSE i \in 1..Len(TeamOrder) : TeamOrder[i] = team

ReferenceLevel(levels) ==
    CHOOSE t \in levels : \A u \in levels : Rank(t) <= Rank(u)

(* The rate with the identity link: 1 + eta.                                *)
ExpRateIdentityLink(eta) == One + 1000 * eta

(* np.exp(eta/1000) in millionths, for the linear predictor of a rate.      *)
ExpRate(eta) ==
    IF eta <= 0 THEN (ExpNeg(-1000 * eta) + 50) \div 100
    ELSE (LongDiv(ExpScale, ExpNeg(1000 * eta), 7) + 5) \div 10

(* goal_model.predict giving an unseen team or opponent the coefficient 0   *)
(* of the reference level.                                                  *)
predict_unseen_at_baseline(goal_model, row) ==
    LET team_coef == IF row.team \in DOMAIN goal_model.team
                     THEN goal_model.team[row.team] ELSE 0
        opponent_coef == IF row.opponent \in DOMAIN goal_model.opponent
                         THEN goal_model.opponent[row.opponent] ELSE 0
    IN  [status |-> "ok",
         rate |-> ExpRate(goal_model.Intercept + goal_model.home * row.home
                            + team_coef + opponent_coef)]

(* goal_model.predict on a one-row frame: the exponential of the linear     *)
(* predictor; a team or opponent that is not a level of the fitted column   *)
(* makes the design-matrix builder raise.                                   *)
predict(goal_model, row) ==
    IF row.team \notin DOMAIN goal_model.team
         \/ row.opponent \notin DOMAIN goal_model.opponent
    THEN [status |-> "PatsyError"]
    ELSE [status |-> "ok",
          rate |-> ExpRate(goal_model.Intercept + goal_model.home * row.home
                             + goal_model.team[row.team]
                             + goal_model.opponent[row.opponent])]

(* poisson.pmf(i, team_mean) for i = 0..n, in units of 1/ExpScale:          *)
(* pmf(0) = e^(-mean), pmf(i) = pmf(i - 1) * mean / i.  pmfs holds the      *)
(* values for 0..k-1.                                                       *)
RECURSIVE PoissonPmfsFrom(_, _, _, _)
PoissonPmfsFrom(pmfs, k, n, team_mean) ==
    IF k > n THEN pmfs
    ELSE PoissonPmfsFrom(Append(pmfs, FMul(pmfs[k], team_mean * 100) \div k),
                         k + 1, n, team_mean)

(* The probabilities without the factor e^(-mean).                          *)
PoissonPmfsUnnormalised(n, team_mean) ==
    PoissonPmfsFrom(<<ExpScale>>, 1, n, team_mean)

PoissonPmfs(n, team_mean) ==
    PoissonPmfsFrom(<<ExpNeg(team_mean)>>, 1, n, team_mean)

(* The probabilities of 1 .. max_goals + 1 goals.                           *)
simulated_goals_from_one(team_mean, max_goals) ==
    IF max_goals < 0 THEN << >> ELSE Tail(PoissonPmfs(max_goals + 1, team_mean))

(* [poisson.pmf(i, team_mean) for i in range(0, max_goals + 1)]             *)
simulated_goals(team_mean, max_goals) ==
    IF max_goals < 0 THEN << >> ELSE PoissonPmfs(max_goals, team_mean)

(* np.outer with its arguments exchanged.                                   *)
outer_transposed(a, b) ==
    [i \in 1..Len(b) |-> [j \in 1..Len(a) |-> FMul(b[i], a[j])]]

(* np.outer(a, b): cell (i, j) is a[i] * b[j].                              *)
outer(a, b) ==
    [i \in 1..Len(a) |-> [j \in 1..Len(b) |-> FMul(a[i], b[j])]]

HomeSideRow(home_side, away_side) ==
    [team |-> home_side, opponent |-> away_side, home |-> 1]

(* The away side's row with the sides exchanged.                            *)
AwaySideRowSwapped(home_side, away_side) ==
    [team |-> home_side, opponent |-> away_side, home |-> 0]

AwaySideRow(home_side, away_side) ==
    [team |-> away_side, opponent |-> home_side, home |-> 0]

simulate_matches(goal_model, home_side, away_side, max_goals) ==
    LET home_row == HomeSideRow(home_side, away_side)
        away_row == AwaySideRow(home_side, away_side)
        mean_home_goals == predict(goal_model, home_row)
        mean_away_goals == predict(goal_model, away_row)
    IN  IF mean_home_goals.status # "ok"
        THEN [status |-> mean_home_goals.status]
        ELSE IF mean_away_goals.status # "ok"
        THEN [status |-> mean_away_goals.status]
        ELSE [status |-> "ok",
              home_row |-> home_row,
              away_row |-> away_row,
              mean_home_goals |-> mean_home_goals.rate,
              mean_away_goals |-> mean_away_goals.rate,
              matrix |-> outer(simulated_goals(mean_home_goals.rate, max_goals),
                               simulated_goals(mean_away_goals.rate, max_goals))]

(***************************************************************************)
(* Event frames, filter_events and create_shot_modelling_data              *)
(*                                                                         *)
(* A frame is [columns, index, rows]: rows is the sequence of its rows,    *)
(* each a function from the columns that hold a value in that row (a       *)
(* column outside a row's domain holds NaN there), index the row labels.   *)
(* Coordinates are in hundredths of a pitch unit, shot_statsbomb_xg in     *)
(* millionths.                                                             *)
(***************************************************************************)
RECURSIVE ColumnsOf(_)
ColumnsOf(e) ==
    IF e = << >> THEN {} ELSE (DOMAIN Head(e)) \cup ColumnsOf(Tail(e))

(* pd.json_normalize(e, sep="_").assign(match_id=match_id): one row for    *)
(* each event, one column for each key that some event has.                *)
frame_events(e, match_id) ==
    [columns |-> ColumnsOf(e) \cup {"match_id"},
     index   |-> [i \in DOMAIN e |-> i - 1],
     rows    |-> [i \in DOMAIN e |->
                     [c \in (DOMAIN e[i]) \cup {"match_id"} |->
                         IF c = "match_id" THEN match_id ELSE e[i][c]]]]

(* The positions from i on at which the boolean mask holds, in order.      *)
RECURSIVE Positions(_, _)
Positions(mask, i) ==
    IF i > Len(mask) THEN << >>
    ELSE (IF mask[i] THEN <<i>> ELSE << >>) \o Positions(mask, i + 1)

(* frame.loc[mask]: the rows at which the mask holds, with their labels.   *)
Loc(frame, mask) ==
    LET ps == Positions(mask, 1)
    IN  [columns |-> frame.columns,
         index   |-> [k \in DOMAIN ps |-> frame.index[ps[k]]],
         rows    |-> [k \in DOMAIN ps |-> frame.rows[ps[k]]]]

(* frame[col] == val in one row: NaN equals nothing.                       *)
Equals(row, col, val) == col \in DOMAIN row /\ row[col] = val

(* frame[col] == val: the boolean mask over the rows.                      *)
ColumnEquals(frame, col, val) ==
    [i \in DOMAIN frame.rows |-> Equals(frame.rows[i], col, val)]

(* frame.set_index(col): the column becomes the row labels and is no       *)
(* longer a column of the frame.                                           *)
set_index(frame, col) ==
    [columns |-> frame.columns \ {col},
     index   |-> [i \in DOMAIN frame.rows |-> frame.rows[i][col]],
     rows    |-> [i \in DOMAIN frame.rows |->
                     [c \in (DOMAIN frame.rows[i]) \ {col} |->
                         frame.rows[i][c]]]]

(* The loop over event_type_filter.items(); items is the sequence of       *)
(* (col, val) pairs in the dictionary's order.  Selecting a column the     *)
(* frame does not have raises KeyError.                                    *)
RECURSIVE FilterLoop(_, _)
FilterLoop(required_event, items) ==
    IF items = << >> THEN [status |-> "ok", frame |-> required_event]
    ELSE LET col == Head(items)[1]
             val == Head(items)[2]
         IN  IF col \notin required_event.columns
             THEN [status |-> "KeyError", key |-> col]
             ELSE FilterLoop(Loc(required_event,
                                 ColumnEquals(required_event, col, val)),
                             Tail(items))

(* An event_type_filter argument: None or a dictionary.                    *)
NoneFilter == [none |-> TRUE]

DictFilter(items) == [none |-> FALSE, items |-> items]

filter_events(e, event_type, event_type_filter) ==
    LET items == IF event_type_filter.none THEN << >>
                 ELSE event_type_filter.items
    IN  IF "type_name" \notin e.columns \/ "id" \notin e.columns
        THEN [status |-> "KeyError",
              key |-> IF "type_name" \notin e.columns THEN "type_name"
                      ELSE "id"]
        ELSE FilterLoop(
                 set_index(Loc(e, ColumnEquals(e, "type_name", event_type)),
                           "id"),
                 items)

(* num / den rounded to the nearest integer, halves away from zero.        *)
RoundHalf(num, den) ==
    LET q == (2 * Abs(num) + Abs(den)) \div (2 * Abs(den))
    IN  IF (num < 0) = (den < 0) THEN q ELSE -q

(* The pitch markings mplsoccer's Standardizer interpolates between, in    *)
(* pitch units, sorted: the lines of the six-yard box, the penalty spot,   *)
(* the penalty area and halfway along x; of the penalty area, the six-yard *)
(* box and the goal posts along y.                                         *)
StatsbombXMarkings == <<0, 6, 12, 18, 60, 102, 108, 114, 120>>

WyscoutXMarkings == <<0, 6, 10, 16, 50, 84, 90, 94, 100>>

StatsbombYMarkings == <<0, 18, 30, 36, 44, 50, 62, 80>>

WyscoutYMarkings == <<0, 19, 37, 45, 55, 63, 81, 100>>

(* Standardizer._standardize: np.searchsorted finds the first marking not  *)
(* below the coordinate (the marking before the first one is the last      *)
(* one, as index -1 is in numpy), and the coordinate goes the same         *)
(* proportion of the way between the two markings of the target pitch.     *)
(* The coordinate is in hundredths; the result is the pair <<n, d>> of     *)
(* the exact value n / d in hundredths.                                    *)
Standardize(markings_from, markings_to, coordinate) ==
    LET pos == CHOOSE i \in DOMAIN markings_from :
                   /\ 100 * markings_from[i] >= coordinate
                   /\ \A j \in 1..(i - 1) : 100 * markings_from[j] < coordinate
        low == IF pos = 1 THEN Len(markings_from) ELSE pos - 1
        d   == markings_from[pos] - markings_from[low]
    IN  <<100 * markings_to[low] * d
            + (markings_to[pos] - markings_to[low])
                * (coordinate - 100 * markings_from[low]),
          d>>

(* Standardizer(pitch_from="statsbomb", pitch_to="wyscout").transform on   *)
(* one point, each component then rounded to 2 decimals: the coordinates   *)
(* are clipped to the StatsBomb pitch, y is flipped on both pitches (both  *)
(* have an inverted y axis), and each axis is standardized on its own.     *)
statsbomb_to_wyscout(x, y) ==
    LET cx == Max(0, Min(12000, x))
        cy == Max(0, Min(8000, y))
        sx == Standardize(StatsbombXMarkings, WyscoutXMarkings, cx)
        sy == Standardize(StatsbombYMarkings, WyscoutYMarkings, 8000 - cy)
    IN  <<RoundHalf(sx[1], sx[2]),
          RoundHalf(10000 * sy[2] - sy[1], sy[2])>>

(* (x["shot_outcome_id"] == 97).astype(int) in one row.                    *)
IsGoalAnyOutcome(row) == IF "shot_outcome_id" \in DOMAIN row THEN 1 ELSE 0

IsGoal(row) == IF Equals(row, "shot_outcome_id", 97) THEN 1 ELSE 0

(* The chain of assign calls on one row: X and Y from location, X          *)
(* converted from (X, Y), then Y converted from the pair (X, Y) the frame  *)
(* holds at that point, then is_goal.  y_conversion_args is the pair the   *)
(* Y conversion hands to transform.                                        *)
AssignChain(row) ==
    LET X0 == row["location"][1]
        Y0 == row["location"][2]
        X1 == statsbomb_to_wyscout(X0, Y0)[1]
        Y1 == statsbomb_to_wyscout(X1, Y0)[2]
    IN  [X |-> X1, Y |-> Y1, is_goal |-> IsGoal(row),
         y_conversion_args |-> <<X1, Y0>>]

(* create_shot_modelling_data: the assign chain, then filter keeps the     *)
(* columns X, Y, is_goal and shot_statsbomb_xg, which rename turns into    *)
(* statsbomb_xg.  trace holds what the Y conversion passed to transform    *)
(* for each row.                                                           *)
create_shot_modelling_data(df) ==
    IF {"location", "shot_outcome_id"} \ df.columns # {}
    THEN [status |-> "KeyError"]
    ELSE [status  |-> "ok",
          columns |-> {"X", "Y", "is_goal"}
                      \cup (IF "shot_statsbomb_xg" \in df.columns
                            THEN {"statsbomb_xg"} ELSE {}),
          index   |-> df.index,
          rows    |-> [i \in DOMAIN df.rows |->
                          LET a == AssignChain(df.rows[i])
                          IN  [X |-> a.X, Y |-> a.Y, is_goal |-> a.is_goal,
                               statsbomb_xg |->
                                   df.rows[i]["shot_statsbomb_xg"]]],
          trace   |-> [i \in DOMAIN df.rows |->
                          AssignChain(df.rows[i]).y_conversion_args]]

(***************************************************************************)
(* State                                                                    *)
(***************************************************************************)
VARIABLES
    xc,               \* X coordinate of the shot the cells are run on
    yc,               \* Y coordinate of that shot
    model_files,      \* the model directory: file name -> pickled parameters
    epl,              \* the table of historical matches
    goal_model_data,  \* the Poisson training table built from epl
    poisson_model,    \* the fitted Poisson model
    ret,              \* what the last call returned or raised
    la_liga_xg_model_data,  \* the row of the shot table for the shot (xc, yc)
    comp_dir,         \* the competition's matches directory: season files
    events,           \* the frame of one match's events
    la_liga_shots,    \* the open-play shots filtered from the events
    la_liga_shots_model_data  \* the shot table: X, Y, is_goal, statsbomb_xg

vars == <<xc, yc, model_files, epl, goal_model_data, poisson_model, ret,
          la_liga_xg_model_data, comp_dir, events, la_liga_shots,
          la_liga_shots_model_data>>

xgVars == <<xc, yc, model_files>>

poissonVars == <<epl, goal_model_data, poisson_model>>

shotVars == <<events, la_liga_shots, la_liga_shots_model_data>>

dataVars == <<la_liga_xg_model_data, comp_dir, shotVars>>

(***************************************************************************)
(* Inputs of the shot notebook                                              *)
(***************************************************************************)
FineStep == 20

NFine == 5

CoarseStep == 350

OutOfRange == 175

(* X = 90, and the X at which the goal mouth subtends a right angle from    *)
(* the pitch's long axis.                                                   *)
SpecialXs == {1575, 1689}

XInRange ==
    {Hundred - i * FineStep : i \in 0..NFine}
      \cup {i * CoarseStep : i \in 0..(Hundred \div CoarseStep)}
      \cup SpecialXs

YInRange ==
    {Fifty - j * FineStep : j \in 0..NFine}
      \cup {Fifty + j * FineStep : j \in 0..NFine}
      \cup {j * CoarseStep : j \in 0..(Hundred \div CoarseStep)}
      \cup {Hundred}

XS == XInRange \cup {-OutOfRange, Hundred + OutOfRange}

YS == YInRange \cup {-OutOfRange, Hundred + OutOfRange}

FileNames == {BaselineModelFn, "second_model.pkl"}

(* Parameter records a fit can return: a typical fit, and fits with a large *)
(* intercept or a steep distance coefficient.                               *)
ParamSets ==
    {[Intercept |-> -1000, dist |-> -120, angle |-> 1300],
     [Intercept |-> 36000, dist |-> 0, angle |-> 1000],
     [Intercept |-> 0, dist |-> -10000, angle |-> 0]}

NoMatches == << >>

(* The shot table before the dist and angle columns are assigned.           *)
ShotsOnly == [columns |-> "X, Y"]

NoSeasonFiles == << >>

NoEvents == << >>

(* A frame the notebook has not assigned yet.                               *)
NotLoaded == [status |-> "not loaded"]

Unfit == [fitted |-> FALSE]

InitXG ==
    /\ xc \in XS
    /\ yc \in YS
    /\ model_files = << >>
    /\ epl = NoMatches
    /\ goal_model_data = << >>
    /\ poisson_model = Unfit
    /\ ret = [op |-> "none"]
    /\ la_liga_xg_model_data = ShotsOnly
    /\ comp_dir = NoSeasonFiles
    /\ events = NoEvents
    /\ la_liga_shots = NotLoaded
    /\ la_liga_shots_model_data = NotLoaded

(***************************************************************************)
(* Cells of the shot notebook                                               *)
(***************************************************************************)
TransformCoordinates ==
    /\ ret' = LET t == transform_coordinates_for_computation(xc, yc)
              IN  [op |-> "transform_coordinates_for_computation",
                   status |-> "ok", t_x |-> t[1], t_y |-> t[2]]
    /\ UNCHANGED <<xgVars, poissonVars, dataVars>>

ComputeShotDistance ==
    /\ ret' = [op |-> "compute_shot_distance", status |-> "ok",
               dist |-> compute_shot_distance(xc, yc)]
    /\ UNCHANGED <<xgVars, poissonVars, dataVars>>

ComputeShotAngle ==
    /\ ret' = LET r == compute_shot_angle(xc, yc)
              IN  [op |-> "compute_shot_angle", status |-> r.status,
                   raw |-> r.raw, angle |-> r.angle]
    /\ UNCHANGED <<xgVars, poissonVars, dataVars>>

SaveModel ==
    \E params \in ParamSets, model_fn \in FileNames :
        /\ model_files' = save_model(params, model_fn, model_files)
        /\ ret' = [op |-> "save_model", status |-> "ok", model_fn |-> model_fn,
                   params |-> params]
        /\ UNCHANGED <<xc, yc, poissonVars, dataVars>>

ComputeXg ==
    \E model_fn \in FileNames :
        /\ ret' = [op |-> "compute_xg", model_fn |-> model_fn,
                   out |-> compute_xg(xc, yc, model_fn, model_files)]
        /\ UNCHANGED <<xgVars, poissonVars, dataVars>>

NextXG ==
    \/ TransformCoordinates
    \/ ComputeShotDistance
    \/ ComputeShotAngle
    \/ SaveModel
    \/ ComputeXg

SpecXG == InitXG /\ [][NextXG]_vars

(***************************************************************************)
(* The shot table and the served model                                      *)
(***************************************************************************)
ServeXS == SpecialXs \cup {0, Hundred, Hundred + OutOfRange}

ServeYS == {0, Fifty, Fifty + NFine * FineStep}

InitServe ==
    /\ xc \in ServeXS
    /\ yc \in ServeYS
    /\ model_files = << >>
    /\ epl = NoMatches
    /\ goal_model_data = << >>
    /\ poisson_model = Unfit
    /\ ret = [op |-> "none"]
    /\ la_liga_xg_model_data = ShotsOnly
    /\ comp_dir = NoSeasonFiles
    /\ events = NoEvents
    /\ la_liga_shots = NotLoaded
    /\ la_liga_shots_model_data = NotLoaded

(* la_liga_shots_model_data.assign(dist = ..., angle = ...): the two        *)
(* feature columns of the fitting table; an exception of either function    *)
(* leaves the table unassigned.                                             *)
AssignFeatures ==
    LET shot_dist == compute_shot_distance(xc, yc)
        shot_ang  == compute_shot_angle(xc, yc)
    IN  /\ IF shot_ang.status = "ok"
           THEN /\ la_liga_xg_model_data'
                     = [columns |-> "X, Y, dist, angle", dist |-> shot_dist,
                        angle |-> shot_ang.angle]
                /\ ret' = [op |-> "assign_features", status |-> "ok"]
           ELSE /\ ret' = [op |-> "assign_features",
                           status |-> shot_ang.status]
                /\ UNCHANGED la_liga_xg_model_data
        /\ UNCHANGED <<xgVars, poissonVars, comp_dir, shotVars>>

(* la_liga_xg_model_data.assign(xg = compute_xg(xi, yi, baseline_model_fn)) *)
AssignXg ==
    /\ la_liga_xg_model_data # ShotsOnly
    /\ LET out == compute_xg(xc, yc, BaselineModelFn, model_files)
       IN  IF out.status = "ok"
           THEN /\ la_liga_xg_model_data'
                     = [columns |-> "X, Y, dist, angle, xg",
                        dist |-> la_liga_xg_model_data.dist,
                        angle |-> la_liga_xg_model_data.angle,
                        xg |-> out.xg]
                /\ ret' = [op |-> "assign_xg", status |-> "ok"]
           ELSE /\ ret' = [op |-> "assign_xg", status |-> out.status]
                /\ UNCHANGED la_liga_xg_model_data
    /\ UNCHANGED <<xgVars, poissonVars, comp_dir, shotVars>>

NextServe ==
    \/ AssignFeatures
    \/ SaveModel
    \/ AssignXg
    \/ ComputeXg

SpecServe == InitServe /\ [][NextServe]_vars

(***************************************************************************)
(* The competition's season files                                           *)
(***************************************************************************)
MaxSeasonMatches == 2

SeasonFns == {"1.json", "27.json", "42.json"}

MatchIds == {9609, 266166}

(* What a season file can list.                                             *)
SeasonFiles ==
    UNION {[1..n -> [match_id : MatchIds]] : n \in 0..MaxSeasonMatches}

InitData ==
    /\ xc = Hundred
    /\ yc = Fifty
    /\ model_files = << >>
    /\ epl = NoMatches
    /\ goal_model_data = << >>
    /\ poisson_model = Unfit
    /\ ret = [op |-> "none"]
    /\ la_liga_xg_model_data = ShotsOnly
    /\ comp_dir \in UNION {[fns -> SeasonFiles] : fns \in SUBSET SeasonFns}
    /\ events = NoEvents
    /\ la_liga_shots = NotLoaded
    /\ la_liga_shots_model_data = NotLoaded

(* os.listdir(comp_dir): the names of the directory in any order.           *)
Listings(fns) ==
    {l \in [1..Cardinality(fns) -> fns] :
        \A i, j \in 1..Cardinality(fns) : l[i] = l[j] => i = j}

(* required_match_ids = get_competition_match_ids(11)                       *)
GetCompetitionMatchIds ==
    /\ \E season_fns \in Listings(DOMAIN comp_dir) :
        ret' = [op |-> "get_competition_match_ids", status |-> "ok",
                season_fns |-> season_fns,
                match_ids |-> get_competition_match_ids(season_fns, comp_dir)]
    /\ UNCHANGED <<xgVars, poissonVars, dataVars>>

NextData == GetCompetitionMatchIds

SpecData == InitData /\ [][NextData]_vars

(***************************************************************************)
(* Inputs and cells of the match notebook                                   *)
(***************************************************************************)
MaxMatches == 2

MaxGoalsScored == 1

MaxGoalsBound == 1

DefaultMaxGoals == 10

(* Every team that can be asked about, and the teams of the season table.   *)
Teams == {"Arsenal", "Liverpool", "Man City"}

LeagueTeams == {"Arsenal", "Man City"}

Matches ==
    {m \in [HomeTeam : LeagueTeams, AwayTeam : LeagueTeams,
            HomeGoals : 0..MaxGoalsScored, AwayGoals : 0..MaxGoalsScored] :
        m.HomeTeam # m.AwayTeam}

Seasons == UNION {[1..n -> Matches] : n \in 0..MaxMatches}

(* The seasons the prediction cells are explored on: the coefficients of a  *)
(* fit are drawn from CoefValues whatever the scores, so one score per      *)
(* match is enough here.                                                    *)
MaxSimMatches == 1

SimSeasons ==
    {s \in Seasons :
        /\ Len(s) <= MaxSimMatches
        /\ \A k \in 1..Len(s) :
             s[k].HomeGoals = MaxGoalsScored /\ s[k].AwayGoals = 0}

(* Coefficients a fit can return, in thousandths.                           *)
CoefValues == {-693, 0}

HomeCoefValues == {0, 693}

MaxGoalsArgs == 0..MaxGoalsBound \cup {5, DefaultMaxGoals}

InitTable ==
    /\ xc = Hundred
    /\ yc = Fifty
    /\ model_files = << >>
    /\ epl \in Seasons
    /\ goal_model_data = << >>
    /\ poisson_model = Unfit
    /\ ret = [op |-> "none"]
    /\ la_liga_xg_model_data = ShotsOnly
    /\ comp_dir = NoSeasonFiles
    /\ events = NoEvents
    /\ la_liga_shots = NotLoaded
    /\ la_liga_shots_model_data = NotLoaded

InitPoisson ==
    /\ xc = Hundred
    /\ yc = Fifty
    /\ model_files = << >>
    /\ epl \in SimSeasons
    /\ goal_model_data = << >>
    /\ poisson_model = Unfit
    /\ ret = [op |-> "none"]
    /\ la_liga_xg_model_data = ShotsOnly
    /\ comp_dir = NoSeasonFiles
    /\ events = NoEvents
    /\ la_liga_shots = NotLoaded
    /\ la_liga_shots_model_data = NotLoaded

BuildGoalModelData ==
    /\ ret.op = "none"
    /\ goal_model_data' = GoalModelData(epl)
    /\ ret' = [op |-> "goal_model_data", status |-> "ok"]
    /\ UNCHANGED <<xgVars, epl, poisson_model, dataVars>>

(* smf.glm(...).fit(): one coefficient per non-reference level of team and  *)
(* of opponent, one for home and an intercept.  The iteration either        *)
(* converges or stops at its last iterate when the iterations run out; in   *)
(* both cases fit() returns the results, whose converged attribute tells    *)
(* the two apart, and the cell assigns them to poisson_model.                *)
FitPoissonModel ==
    /\ goal_model_data # << >>
    /\ \E tc \in [Levels(goal_model_data, "team") -> CoefValues],
          oc \in [Levels(goal_model_data, "opponent") -> CoefValues],
          h \in HomeCoefValues, converged \in BOOLEAN :
            /\ tc[ReferenceLevel(DOMAIN tc)] = 0
            /\ oc[ReferenceLevel(DOMAIN oc)] = 0
            /\ poisson_model' = [fitted |-> TRUE, Intercept |-> 0, home |-> h,
                                 team |-> tc, opponent |-> oc,
                                 converged |-> converged]
    /\ ret' = [op |-> "fit", status |-> "ok"]
    /\ UNCHANGED <<xgVars, epl, goal_model_data, dataVars>>

PredictScoreRates ==
    /\ poisson_model.fitted
    /\ \E home_team \in Teams, away_team \in Teams :
        ret' = [op |-> "predict", home_team |-> home_team,
                away_team |-> away_team,
                home_score_rate |->
                    predict(poisson_model, HomeSideRow(home_team, away_team)),
                away_score_rate |->
                    predict(poisson_model, AwaySideRow(home_team, away_team))]
    /\ UNCHANGED <<xgVars, poissonVars, dataVars>>

(* simulate_matches keeping the home advantage it used out of the model.    *)
SimulateMatchesConsuming ==
    /\ poisson_model.fitted
    /\ \E home_side \in Teams, away_side \in Teams, max_goals \in MaxGoalsArgs :
        ret' = [op |-> "simulate_matches", home_side |-> home_side,
                away_side |-> away_side, max_goals |-> max_goals,
                out |-> simulate_matches(poisson_model, home_side, away_side,
                                         max_goals)]
    /\ poisson_model' = [poisson_model EXCEPT !.home = 0]
    /\ UNCHANGED <<xgVars, epl, goal_model_data, dataVars>>

SimulateMatches ==
    /\ poisson_model.fitted
    /\ \E home_side \in Teams, away_side \in Teams, max_goals \in MaxGoalsArgs :
        ret' = [op |-> "simulate_matches", home_side |-> home_side,
                away_side |-> away_side, max_goals |-> max_goals,
                out |-> simulate_matches(poisson_model, home_side, away_side,
                                         max_goals)]
    /\ UNCHANGED <<xgVars, poissonVars, dataVars>>

NextPoisson ==
    \/ BuildGoalModelData
    \/ FitPoissonModel
    \/ PredictScoreRates
    \/ SimulateMatches

SpecPoisson == InitPoisson /\ [][NextPoisson]_vars

NextTable ==
    \/ BuildGoalModelData
    \/ FitPoissonModel

SpecTable == InitTable /\ [][NextTable]_vars

(***************************************************************************)
(* Loading the shots: one match's events, filter_events and                *)
(* create_shot_modelling_data                                              *)
(***************************************************************************)
MaxEvents == 2

(* The match whose events file is loaded.                                  *)
m_id == 9609

ShotLocations == {<<10800, 4000>>, <<11150, 3320>>}

(* The events of a match file without their ids: a pass, a carry, and      *)
(* shots of two types and two outcomes (97 is Goal, 100 Saved).            *)
EventTemplates ==
    {[type_name |-> "Pass", location |-> <<6000, 4000>>],
     [type_name |-> "Carry", location |-> <<6000, 4000>>]}
    \cup {[type_name |-> "Shot", shot_type_name |-> t, shot_outcome_id |-> o,
           location |-> l,
           shot_statsbomb_xg |-> IF o = 97 THEN 760000 ELSE 52000] :
             t \in {"Open Play", "Penalty"}, o \in {97, 100},
             l \in ShotLocations}

(* The event with its id, which is unique within the file.                 *)
WithId(event, id) ==
    [c \in (DOMAIN event) \cup {"id"} |-> IF c = "id" THEN id ELSE event[c]]

EventTypes == {"Shot", "Pass", "Carry"}

OpenPlayFilter == DictFilter(<<<<"shot_type_name", "Open Play">>>>)

EventTypeFilters ==
    <<NoneFilter,
      DictFilter(<< >>),
      OpenPlayFilter,
      DictFilter(<<<<"shot_type_name", "Open Play">>,
                   <<"shot_outcome_id", 97>>>>),
      DictFilter(<<<<"id", 1>>>>)>>

InitEvents ==
    /\ xc = 0
    /\ yc = 0
    /\ model_files = << >>
    /\ epl = NoMatches
    /\ goal_model_data = << >>
    /\ poisson_model = Unfit
    /\ ret = [op |-> "none"]
    /\ la_liga_xg_model_data = ShotsOnly
    /\ comp_dir = NoSeasonFiles
    /\ \E n \in 1..MaxEvents :
         \E f \in [1..n -> EventTemplates] :
             events = [i \in 1..n |-> WithId(f[i], i)]
    /\ la_liga_shots = NotLoaded
    /\ la_liga_shots_model_data = NotLoaded

(* A call of filter_events on the frame of the match's events.             *)
FilterEvents ==
    \E event_type \in EventTypes, k \in DOMAIN EventTypeFilters :
        /\ ret' = [op |-> "filter_events",
                   event_type |-> event_type,
                   event_type_filter |-> EventTypeFilters[k],
                   out |-> filter_events(frame_events(events, m_id),
                                         event_type, EventTypeFilters[k])]
        /\ UNCHANGED <<xgVars, poissonVars, la_liga_xg_model_data, comp_dir,
                       shotVars>>

(* The loading cell, on the one match: the open-play shots of the match    *)
(* become la_liga_shots; when filter_events raises the cell stops and      *)
(* nothing is assigned.                                                    *)
LoadShots ==
    LET match_shots == filter_events(frame_events(events, m_id), "Shot",
                                     OpenPlayFilter)
    IN  /\ la_liga_shots = NotLoaded
        /\ ret' = [op |-> "load_shots", status |-> match_shots.status]
        /\ la_liga_shots' = IF match_shots.status = "ok"
                            THEN match_shots.frame ELSE la_liga_shots
        /\ UNCHANGED <<xgVars, poissonVars, la_liga_xg_model_data, comp_dir,
                       events, la_liga_shots_model_data>>

(* la_liga_shots_model_data = create_shot_modelling_data(la_liga_shots).   *)
CreateShotModellingData ==
    LET out == create_shot_modelling_data(la_liga_shots)
    IN  /\ la_liga_shots # NotLoaded
        /\ out.status = "ok"
        /\ ret' = [op |-> "create_shot_modelling_data", trace |-> out.trace]
        /\ la_liga_shots_model_data' =
               [columns |-> out.columns, index |-> out.index,
                rows |-> out.rows]
        /\ UNCHANGED <<xgVars, poissonVars, la_liga_xg_model_data, comp_dir,
                       events, la_liga_shots>>

NextEvents ==
    \/ FilterEvents
    \/ LoadShots
    \/ CreateShotModellingData

SpecEvents == InitEvents /\ [][NextEvents]_vars

(***************************************************************************)
(* The angle's denominator on the coordinates of the shot table            *)
(*                                                                         *)
(* create_shot_modelling_data rounds X and Y to 2 decimals, so the table   *)
(* holds whole hundredths.  In units of 1/2000 m the transformed           *)
(* coordinates of such a point are whole numbers, 21 for each hundredth    *)
(* of X and 13 for each hundredth of Y, and half the goal width is 7320,   *)
(* so that the denominator is computed exactly.                            *)
(***************************************************************************)
(* The denominator for a goal 7.28 m wide.                                 *)
AngleDenominatorNarrowGoal(X, Y) ==
    LET m_x == 21 * (10000 - X)
        c_y == 13 * Abs(Y - 5000)
    IN  m_x * m_x + c_y * c_y - 7280 * 7280

(* mx ** 2 + cy ** 2 - (7.32 / 2) ** 2 at the hundredths (X, Y), in        *)
(* squared units of 1/2000 m.                                              *)
AngleDenominator(X, Y) ==
    LET m_x == 21 * (10000 - X)
        c_y == 13 * Abs(Y - 5000)
    IN  m_x * m_x + c_y * c_y - 7320 * 7320

(* How far beyond the circle on the goal mouth, in hundredths, the table's *)
(* coordinates are taken one by one.                                       *)
GridMargin == 1

(* The hundredths of X and of Y around the circle, which reaches 7320 / 21 *)
(* hundredths along X and 7320 / 13 along Y from the middle of the goal,   *)
(* and coordinates further out, a pitch unit and more apart.               *)
GridXs ==
    {10000 - u : u \in 0..(7320 \div 21 + GridMargin)}
      \cup {8500 + 100 * i : i \in 0..11}

GridYs ==
    {5000 + v : v \in -(7320 \div 13 + GridMargin)
                        ..(7320 \div 13 + GridMargin)}
      \cup {2500 + 500 * j : j \in 0..10}

(* A shot table of one row at the hundredths (X, Y).                       *)
OneShotTable(X, Y) ==
    [columns |-> {"X", "Y", "is_goal", "statsbomb_xg"},
     index   |-> <<1>>,
     rows    |-> <<[X |-> X, Y |-> Y, is_goal |-> 0,
                    statsbomb_xg |-> 52000]>>]

InitGrid ==
    /\ xc = 0
    /\ yc = 0
    /\ model_files = << >>
    /\ epl = NoMatches
    /\ goal_model_data = << >>
    /\ poisson_model = Unfit
    /\ ret = [op |-> "none"]
    /\ la_liga_xg_model_data = ShotsOnly
    /\ comp_dir = NoSeasonFiles
    /\ events = NoEvents
    /\ la_liga_shots = NotLoaded
    /\ \E X \in GridXs, Y \in GridYs :
           la_liga_shots_model_data = OneShotTable(X, Y)

(* The division of compute_shot_angle on the row of the table: a zero      *)
(* denominator raises.                                                     *)
DivideForAngle ==
    LET row == la_liga_shots_model_data.rows[1]
        den == AngleDenominator(row.X, row.Y)
    IN  /\ ret' = [op |-> "divide_for_angle", den |-> den,
                   status |-> IF den = 0 THEN "ZeroDivisionError" ELSE "ok"]
        /\ UNCHANGED <<xgVars, poissonVars, dataVars>>

NextGrid == DivideForAngle

SpecGrid == InitGrid /\ [][NextGrid]_vars

(***************************************************************************)
(* Properties of the shot geometry and of compute_xg                        *)
(***************************************************************************)
InDomain == xc \in 0..Hundred /\ yc \in 0..Hundred

(* C1: for x, y in [0, 100] compute_shot_angle returns an angle strictly    *)
(* between 0 and pi, the goal line and the zero-denominator circle          *)
(* included.                                                                *)
C1_AngleInOpenInterval ==
    (ret.op = "compute_shot_angle" /\ InDomain)
        => /\ ret.status = "ok"
           /\ 0 < ret.angle
           /\ ret.angle < Pi

NormSquared ==
    (21 * (Hundred - xc)) * (21 * (Hundred - xc))
      + (13 * Abs(yc - Fifty)) * (13 * Abs(yc - Fifty))

(* C3: for x, y in [0, 100] compute_shot_distance is non-negative, is the   *)
(* Euclidean norm of the transformed coordinates (to the nearest length     *)
(* unit), and is 0 exactly at (100, 50).                                    *)
C3_DistanceIsNorm ==
    (ret.op = "compute_shot_distance" /\ InDomain)
        => /\ ret.dist >= 0
           /\ ret.dist * ret.dist - ret.dist <= NormSquared
           /\ NormSquared <= ret.dist * ret.dist + ret.dist
           /\ (ret.dist = 0) <=> (xc = Hundred /\ yc = Fifty)

C3_Witness ==
    /\ ret.op = "compute_shot_distance"
    /\ InDomain
    /\ xc < Hundred
    /\ yc # Fifty
    /\ ret.dist > 0

(* The shot of end-to-end scenario 1: (90, 50).                             *)
AtNinetyFifty == xc = 1575 /\ yc = Fifty

(* C4 as stated: at (90, 50) the distance is 5.25 m within 0.01 m and the   *)
(* angle is close to pi/2 (here: within 0.1 rad).                           *)
C4_Original ==
    AtNinetyFifty
        => /\ ret.op = "compute_shot_distance"
                => Abs(2 * ret.dist - (21 * UnitsPerMetre) \div 2)
                      <= (2 * UnitsPerMetre) \div 100
           /\ ret.op = "compute_shot_angle"
                => Abs(2 * ret.angle - Pi) <= 200000

(* C4 amended: at (90, 50) the distance is 10.5 m within 0.01 m and the     *)
(* angle is 0.6708 rad within 0.001 rad, well below pi/2.                   *)
C4_Amended ==
    AtNinetyFifty
        => /\ ret.op = "compute_shot_distance"
                => Abs(2 * ret.dist - 21 * UnitsPerMetre)
                      <= (2 * UnitsPerMetre) \div 100
           /\ ret.op = "compute_shot_angle"
                => /\ ret.status = "ok"
                   /\ Abs(ret.angle - 670800) <= 1000

C4_Witness ==
    /\ AtNinetyFifty
    /\ ret.op = "compute_shot_distance"
    /\ ret.dist = 3675

(* C5: transform_coordinates_for_computation returns                        *)
(* ((100 - x) * 105 / 100, |y - 50| * 65 / 100) for every input, in or out  *)
(* of [0, 100], without an error path; x > 100 gives a negative first       *)
(* component and the second is never negative.                              *)
C5_TransformExtrapolates ==
    ret.op = "transform_coordinates_for_computation"
        => /\ ret.status = "ok"
           /\ 100 * ret.t_x = (Hundred - xc) * 105 * LenPerCoord
           /\ 100 * ret.t_y = Abs(yc - Fifty) * 65 * LenPerCoord
           /\ xc > Hundred => ret.t_x < 0
           /\ ret.t_y >= 0

C5_Witness ==
    /\ ret.op = "transform_coordinates_for_computation"
    /\ xc > Hundred
    /\ yc < 0
    /\ ret.t_x < 0
    /\ ret.t_y > 0

(* The status a call ended with.                                            *)
RetStatus == IF ret.op = "compute_xg" THEN ret.out.status ELSE ret.status

(* C6: compute_shot_distance, compute_shot_angle and compute_xg raise an    *)
(* input-validation error for coordinates outside [0, 100] and return no    *)
(* value.                                                                   *)
C6_OutOfDomainRejected ==
    (ret.op \in {"compute_shot_distance", "compute_shot_angle", "compute_xg"}
       /\ ~InDomain)
        => RetStatus = "InputValidationError"

(* C7 as stated: compute_xg returns the sigmoid of the linear sum, strictly *)
(* between 0 and 1 for every finite linear sum.                             *)
C7_Original ==
    (ret.op = "compute_xg" /\ ret.out.status = "ok" /\ InDomain)
        => /\ ret.out.xg = Sigmoid(ret.out.linear_sum)
           /\ 0 < ret.out.xg
           /\ ret.out.xg < One

(* C7 amended: compute_xg returns the sigmoid of                            *)
(* Intercept + dist * coef_dist + angle * coef_angle, with dist and angle   *)
(* from compute_shot_distance and compute_shot_angle; the result is in      *)
(* [0, 1], strictly inside for linear sums from -709 to 36, exactly 1 from  *)
(* 37 upwards and exactly 0 from -710 downwards.                            *)
C7_Amended ==
    (ret.op = "compute_xg" /\ ret.out.status = "ok")
        => LET o == ret.out
               p == pickle_load(model_files[ret.model_fn])
           IN  /\ o.dist = compute_shot_distance(xc, yc)
               /\ o.angle = compute_shot_angle(xc, yc).angle
               /\ Abs(o.linear_sum - p.Intercept
                        - (o.dist * p.dist) \div UnitsPerMetre
                        - ((o.angle \div 1000) * p.angle) \div 1000) <= 3
               /\ 0 <= o.xg
               /\ o.xg <= One
               /\ (o.linear_sum >= -709000 /\ o.linear_sum <= 36000)
                    => (0 < o.xg /\ o.xg < One)
               /\ o.linear_sum >= 37000 => o.xg = One
               /\ o.linear_sum <= -710000 => o.xg = 0
               /\ o.linear_sum = 0 => o.xg = One \div 2
               /\ (o.linear_sum > 0 /\ o.linear_sum <= 36000)
                    => 2 * o.xg > One
               /\ (o.linear_sum < 0 /\ o.linear_sum >= -709000)
                    => 2 * o.xg < One

C7_Witness ==
    /\ ret.op = "compute_xg"
    /\ ret.out.status = "ok"
    /\ ret.out.linear_sum >= 37000
    /\ ret.out.xg = One

(***************************************************************************)
(* Properties of the Poisson goal model                                     *)
(***************************************************************************)
RECURSIVE SumOver(_, _)
SumOver(seq, field) ==
    IF seq = << >> THEN 0
    ELSE seq[1][field] + SumOver(Tail(seq), field)

TableBuilt == goal_model_data # << >> \/ ret.op = "goal_model_data"

(* C8: the training table holds exactly two rows per match, the home        *)
(* side's (home = 1, goals = home goals) and the away side's (home = 0,     *)
(* goals = away goals), and nothing else; its length is twice the number of *)
(* matches and its goals add up to all goals scored.                        *)
C8_TwoRowsPerMatch ==
    TableBuilt
        => LET n == Len(epl)
           IN  /\ Len(goal_model_data) = 2 * n
               /\ \A k \in 1..n :
                    /\ goal_model_data[k] =
                         [team |-> epl[k].HomeTeam, opponent |-> epl[k].AwayTeam,
                          home |-> 1, goals |-> epl[k].HomeGoals]
                    /\ goal_model_data[n + k] =
                         [team |-> epl[k].AwayTeam, opponent |-> epl[k].HomeTeam,
                          home |-> 0, goals |-> epl[k].AwayGoals]
               /\ SumOver(goal_model_data, "goals")
                    = SumOver(epl, "HomeGoals") + SumOver(epl, "AwayGoals")

C8_Witness ==
    /\ ret.op = "goal_model_data"
    /\ Len(epl) = 2
    /\ Len(goal_model_data) = 4
    /\ epl[1].HomeGoals # epl[1].AwayGoals

(* C9: simulate_matches predicts the home rate from the row (home_side,     *)
(* away_side, home = 1) and the away rate from the row (away_side,          *)
(* home_side, home = 0).                                                    *)
C9_RowsNotSwapped ==
    (ret.op = "simulate_matches" /\ ret.out.status = "ok")
        => LET m == poisson_model
               h == ret.home_side
               a == ret.away_side
           IN  /\ ret.out.home_row = [team |-> h, opponent |-> a, home |-> 1]
               /\ ret.out.away_row = [team |-> a, opponent |-> h, home |-> 0]
               /\ ret.out.mean_home_goals
                    = ExpRate(m.Intercept + m.home + m.team[h] + m.opponent[a])
               /\ ret.out.mean_away_goals
                    = ExpRate(m.Intercept + m.team[a] + m.opponent[h])

C9_Witness ==
    /\ ret.op = "simulate_matches"
    /\ ret.out.status = "ok"
    /\ ret.home_side # ret.away_side
    /\ poisson_model.team[ret.home_side] # poisson_model.team[ret.away_side]
    /\ poisson_model.home # 0

(* C10: for max_goals >= 0 the matrix has max_goals + 1 rows and columns    *)
(* and cell (i, j) is pmf(i; mean_home_goals) * pmf(j; mean_away_goals):    *)
(* rows index home goals, columns away goals; cell (0, 0) is                *)
(* P(home = 0) * P(away = 0).                                               *)
C10_OuterProduct ==
    (ret.op = "simulate_matches" /\ ret.out.status = "ok"
       /\ ret.max_goals >= 0)
        => LET n  == ret.max_goals
               mx == ret.out.matrix
               ph == PoissonPmfs(n, ret.out.mean_home_goals)
               pa == PoissonPmfs(n, ret.out.mean_away_goals)
           IN  /\ Len(mx) = n + 1
               /\ \A i \in 1..Len(mx) : Len(mx[i]) = n + 1
               /\ \A i \in 0..n : \A j \in 0..n :
                    mx[i + 1][j + 1] = FMul(ph[i + 1], pa[j + 1])
               /\ mx[1][1] = FMul(ExpNeg(ret.out.mean_home_goals),
                                  ExpNeg(ret.out.mean_away_goals))

C10_Witness ==
    /\ ret.op = "simulate_matches"
    /\ ret.out.status = "ok"
    /\ ret.max_goals = DefaultMaxGoals
    /\ Len(ret.out.matrix) = DefaultMaxGoals + 1
    /\ ret.out.mean_home_goals # ret.out.mean_away_goals
    /\ ret.out.matrix[2][1] # ret.out.matrix[1][2]

RECURSIVE SumSeq(_)
SumSeq(seq) == IF seq = << >> THEN 0 ELSE seq[1] + SumSeq(Tail(seq))

(* The sum of all cells of a matrix, row by row.                            *)
SumCells(matrix) == SumSeq([i \in 1..Len(matrix) |-> SumSeq(matrix[i])])

(* The rounding of the cells: half a unit of 1/ExpScale for each.           *)
CellRounding(matrix) == (Len(matrix) * Len(matrix) + 1) \div 2

(* C11: every cell of the matrix returned by simulate_matches is            *)
(* non-negative, and the cells add up to at most 1: to                      *)
(* P(home <= max_goals) * P(away <= max_goals), the rest being the          *)
(* probability that a side scores more than max_goals (sums compared up to  *)
(* the rounding of the cells).                                              *)
C11_CellsAreProbabilities ==
    (ret.op = "simulate_matches" /\ ret.out.status = "ok"
       /\ ret.max_goals >= 0)
        => LET mx == ret.out.matrix
               ph == simulated_goals(ret.out.mean_home_goals, ret.max_goals)
               pa == simulated_goals(ret.out.mean_away_goals, ret.max_goals)
           IN  /\ ret.out.mean_home_goals > 0
               /\ ret.out.mean_away_goals > 0
               /\ \A i \in 1..Len(mx) : \A j \in 1..Len(mx[i]) :
                    mx[i][j] >= 0
               /\ SumSeq(ph) <= ExpScale + Len(ph)
               /\ SumSeq(pa) <= ExpScale + Len(pa)
               /\ SumCells(mx) <= ExpScale + CellRounding(mx)
               /\ Abs(SumCells(mx) - FMul(SumSeq(ph), SumSeq(pa)))
                    <= CellRounding(mx)

C11_Witness ==
    /\ ret.op = "simulate_matches"
    /\ ret.out.status = "ok"
    /\ ret.max_goals = 1
    /\ SumCells(ret.out.matrix) > 0
    /\ 2 * SumCells(ret.out.matrix) < ExpScale

(* C12: a rate prediction or a simulate_matches call leaves the fitted      *)
(* model, the training table and every other variable as they were, and     *)
(* what it returns is determined by the fitted model and its arguments      *)
(* alone, whatever was called before it.                                    *)
C12_PredictionReadsOnly ==
    [][ret'.op \in {"predict", "simulate_matches"}
        => /\ poisson_model' = poisson_model
           /\ goal_model_data' = goal_model_data
           /\ epl' = epl
           /\ <<xc, yc, model_files, la_liga_xg_model_data, comp_dir>>'
                = <<xc, yc, model_files, la_liga_xg_model_data, comp_dir>>
           /\ UNCHANGED shotVars
           /\ ret'.op = "simulate_matches"
                => ret'.out = simulate_matches(poisson_model', ret'.home_side,
                                               ret'.away_side, ret'.max_goals)
           /\ ret'.op = "predict"
                => /\ ret'.home_score_rate
                        = predict(poisson_model',
                                  [team |-> ret'.home_team,
                                   opponent |-> ret'.away_team, home |-> 1])
                   /\ ret'.away_score_rate
                        = predict(poisson_model',
                                  [team |-> ret'.away_team,
                                   opponent |-> ret'.home_team, home |-> 0])]_vars

(* A simulation that follows a rate prediction on the same fitted model.    *)
C12_Witness ==
    /\ ret.op = "simulate_matches"
    /\ ret.out.status = "ok"
    /\ poisson_model.fitted
    /\ poisson_model.home # 0
    /\ ret.out.mean_home_goals
         # predict(poisson_model,
                   [team |-> ret.home_side, opponent |-> ret.away_side,
                    home |-> 0]).rate

(***************************************************************************)
(* Properties of the served model                                           *)
(***************************************************************************)
HasXgColumn == la_liga_xg_model_data.columns = "X, Y, dist, angle, xg"

HasFeatureColumns == la_liga_xg_model_data # ShotsOnly

(* C13 as stated: a call compute_xg(xc, yc, baseline_model_fn) returns the  *)
(* value the earlier call with the same arguments stored in the xg column,  *)
(* whatever was executed between the two calls.                             *)
C13_Original ==
    (HasXgColumn /\ ret.op = "compute_xg" /\ ret.model_fn = BaselineModelFn
       /\ ret.out.status = "ok")
        => ret.out.xg = la_liga_xg_model_data.xg

(* C13 amended: compute_xg returns a function of xc, yc and the record that *)
(* the file model_fn holds when it is called: it loads that record, and a   *)
(* value that differs from the one an earlier call with the same arguments  *)
(* returned is the value for another record in the file, rewritten by       *)
(* save_model between the two calls.                                        *)
C13_Amended ==
    (ret.op = "compute_xg" /\ ret.out.status = "ok")
        => /\ ret.model_fn \in DOMAIN model_files
           /\ ret.out.params = pickle_load(model_files[ret.model_fn])
           /\ ret.out.xg
                = Sigmoid(LinearSum(ret.out.params,
                                    compute_shot_distance(xc, yc),
                                    compute_shot_angle(xc, yc).angle))
           /\ (HasXgColumn /\ ret.model_fn = BaselineModelFn)
                => \/ ret.out.xg = la_liga_xg_model_data.xg
                   \/ \E p \in ParamSets \ {ret.out.params} :
                        la_liga_xg_model_data.xg
                          = Sigmoid(LinearSum(p, ret.out.dist, ret.out.angle))

C13_Witness ==
    /\ HasXgColumn
    /\ ret.op = "compute_xg"
    /\ ret.model_fn = BaselineModelFn
    /\ ret.out.status = "ok"
    /\ ret.out.xg # la_liga_xg_model_data.xg

(***************************************************************************)
(* Properties of fitting and predicting the goal model                      *)
(***************************************************************************)
(* The teams of the fitting data, as team and as opponent.                  *)
FitTeams == Levels(goal_model_data, "team")

FitOpponents == Levels(goal_model_data, "opponent")

UnseenPair(side, other) ==
    \/ side \notin FitTeams
    \/ side \notin FitOpponents
    \/ other \notin FitTeams
    \/ other \notin FitOpponents

(* C14: a rate prediction or a simulate_matches call for a team or opponent *)
(* that is not in the fitting data ends in an error and returns no rate and *)
(* no matrix.                                                               *)
C14_UnseenTeamRaises ==
    /\ (ret.op = "simulate_matches"
          /\ UnseenPair(ret.home_side, ret.away_side))
         => /\ ret.out.status = "PatsyError"
            /\ DOMAIN ret.out = {"status"}
    /\ (ret.op = "predict" /\ UnseenPair(ret.home_team, ret.away_team))
         => /\ ret.home_score_rate = [status |-> "PatsyError"]
            /\ ret.away_score_rate = [status |-> "PatsyError"]
    /\ (ret.op = "simulate_matches"
          /\ ~UnseenPair(ret.home_side, ret.away_side))
         => ret.out.status = "ok"

C14_Witness ==
    /\ ret.op = "simulate_matches"
    /\ ret.home_side \in FitTeams
    /\ ret.away_side \notin FitOpponents
    /\ ret.out.status = "PatsyError"

(* C15: a fit whose solver did not converge ends in an error, and its       *)
(* coefficients are neither returned nor used for a prediction or a         *)
(* simulation.                                                              *)
C15_NonConvergenceSurfaced ==
    /\ (ret.op = "fit" /\ poisson_model.fitted /\ ~poisson_model.converged)
         => ret.status # "ok"
    /\ (ret.op \in {"predict", "simulate_matches"})
         => poisson_model.converged

(***************************************************************************)
(* Properties of the saved parameter record                                 *)
(***************************************************************************)
(* C16: save_model(params, fn) leaves in the file fn a record that loads    *)
(* back to exactly params and touches no other file; compute_xg evaluates   *)
(* with the record loaded from its file and never writes to the model       *)
(* directory, and no other operation writes to it either, so that a         *)
(* compute_xg on fn that follows a save_model on fn uses the saved          *)
(* Intercept, dist and angle.                                               *)
C16_SaveLoadRoundTrip ==
    [][/\ ret'.op = "save_model"
            => /\ ret'.model_fn \in DOMAIN model_files'
               /\ pickle_load(model_files'[ret'.model_fn]) = ret'.params
               /\ \A f \in DOMAIN model_files \ {ret'.model_fn} :
                    /\ f \in DOMAIN model_files'
                    /\ model_files'[f] = model_files[f]
       /\ ret'.op # "save_model" => model_files' = model_files
       /\ (ret'.op = "compute_xg" /\ ret'.out.status = "ok")
            => /\ ret'.model_fn \in DOMAIN model_files
               /\ ret'.out.params = pickle_load(model_files[ret'.model_fn])
               /\ ret'.out.linear_sum
                    = LinearSum(ret'.out.params, ret'.out.dist,
                                ret'.out.angle)
       /\ (ret.op = "save_model" /\ ret'.op = "compute_xg"
             /\ ret'.model_fn = ret.model_fn /\ ret'.out.status = "ok")
            => /\ ret'.out.params.Intercept = ret.params.Intercept
               /\ ret'.out.params.dist = ret.params.dist
               /\ ret'.out.params.angle = ret.params.angle]_vars

(* compute_xg on a file that was saved twice, with different records.       *)
C16_Witness ==
    /\ ret.op = "compute_xg"
    /\ ret.out.status = "ok"
    /\ ret.out.params.dist # ret.out.params.angle
    /\ HasXgColumn
    /\ ret.model_fn = BaselineModelFn
    /\ ret.out.xg # la_liga_xg_model_data.xg
    /\ ret.out.params = pickle_load(model_files[ret.model_fn])

(* C17: the dist and angle that compute_xg multiplies with the coefficients *)
(* are the values of the dist and angle columns of the fitting table for    *)
(* the same shot, dist with the coefficient "dist" and angle with the       *)
(* coefficient "angle".                                                     *)
C17_SameFeaturePipeline ==
    (HasFeatureColumns /\ ret.op = "compute_xg" /\ ret.out.status = "ok")
        => LET row == la_liga_xg_model_data
               p   == ret.out.params
           IN  /\ ret.out.dist = row.dist
               /\ ret.out.angle = row.angle
               /\ ret.out.linear_sum
                    = p.Intercept
                        + SDiv(row.dist * p.dist, UnitsPerMetre)
                        + SDiv((row.angle \div 1000) * p.angle
                                 + SDiv((row.angle % 1000) * p.angle, 1000),
                               1000)
               /\ ret.out.xg = Sigmoid(ret.out.linear_sum)

C17_Witness ==
    /\ HasFeatureColumns
    /\ ret.op = "compute_xg"
    /\ ret.out.status = "ok"
    /\ ret.out.params.dist # ret.out.params.angle
    /\ la_liga_xg_model_data.dist > 0
    /\ la_liga_xg_model_data.angle > 0

(***************************************************************************)
(* Properties of the predicted rates                                        *)
(***************************************************************************)
(* C18: for teams of the fitting data the predicted rates are the           *)
(* exponential of the linear predictor and strictly positive, for the home  *)
(* and for the away side.                                                   *)
C18_RatePositive ==
    /\ (ret.op = "predict" /\ ~UnseenPair(ret.home_team, ret.away_team))
         => LET m == poisson_model
                h == ret.home_team
                a == ret.away_team
            IN  /\ ret.home_score_rate.status = "ok"
                /\ ret.away_score_rate.status = "ok"
                /\ ret.home_score_rate.rate
                     = ExpRate(m.Intercept + m.home + m.team[h]
                                 + m.opponent[a])
                /\ ret.away_score_rate.rate
                     = ExpRate(m.Intercept + m.team[a] + m.opponent[h])
                /\ ret.home_score_rate.rate > 0
                /\ ret.away_score_rate.rate > 0
    /\ (ret.op = "simulate_matches"
          /\ ~UnseenPair(ret.home_side, ret.away_side))
         => /\ ret.out.mean_home_goals > 0
            /\ ret.out.mean_away_goals > 0

(* A rate below 1/2: a linear predictor below -ln 2.                        *)
C18_Witness ==
    /\ ret.op = "predict"
    /\ ret.away_score_rate.status = "ok"
    /\ ret.away_score_rate.rate > 0
    /\ 2 * ret.away_score_rate.rate < One

(* A predicted rate that is lambda to three decimals.                      *)
RateIs(rate, lambda) == Abs(rate - lambda * One) <= One \div 2000

(* C19: with lambda_home = 2, lambda_away = 1 and max_goals = 5, cell       *)
(* (2, 1) is pmf(2; 2) * pmf(1; 1) = (4 e^-2 / 2) * (1 e^-1 / 1), which is  *)
(* 0.0996 within 1e-4; so is the cell of a simulate_matches call whose      *)
(* predicted rates are 2 and 1.                                             *)
C19_CellTwoOne ==
    /\ LET mx == outer(simulated_goals(2 * One, 5), simulated_goals(One, 5))
       IN  /\ Len(mx) = 6
           /\ Abs(mx[3][2] - FMul((4 * ExpNeg(2 * One)) \div 2, ExpNeg(One)))
                <= 2
           /\ Abs(mx[3][2] - 9960000) <= 10000
    /\ (ret.op = "simulate_matches" /\ ret.out.status = "ok"
          /\ ret.max_goals = 5
          /\ RateIs(ret.out.mean_home_goals, 2)
          /\ RateIs(ret.out.mean_away_goals, 1))
         => Abs(ret.out.matrix[3][2] - 9960000) <= 10000

C19_Witness ==
    /\ ret.op = "simulate_matches"
    /\ ret.out.status = "ok"
    /\ ret.max_goals = 5
    /\ RateIs(ret.out.mean_home_goals, 2)
    /\ ret.out.mean_away_goals = One
    /\ Abs(ret.out.matrix[3][2] - 9957414) <= 1000

(***************************************************************************)
(* Properties of the loaded match ids                                       *)
(***************************************************************************)
(* The entries of the season files: a file and a position in it.            *)
ListedEntries ==
    UNION {{<<fn, k>> : k \in 1..Len(comp_dir[fn])} : fn \in DOMAIN comp_dir}

(* C20: the list returned by get_competition_match_ids has one entry per    *)
(* match listed in a season file of the directory: every season file is     *)
(* read, each match id occurs as often as the files list it, and nothing    *)
(* else occurs.                                                             *)
C20_AllMatchIds ==
    ret.op = "get_competition_match_ids"
        => LET ids == ret.match_ids
           IN  /\ ret.status = "ok"
               /\ {ret.season_fns[i] : i \in 1..Len(ret.season_fns)}
                    = DOMAIN comp_dir
               /\ Len(ids) = Cardinality(ListedEntries)
               /\ \A id \in MatchIds :
                    Cardinality({k \in 1..Len(ids) : ids[k] = id})
                      = Cardinality({e \in ListedEntries :
                                       comp_dir[e[1]][e[2]].match_id = id})
               /\ \A k \in 1..Len(ids) :
                    \E e \in ListedEntries :
                        comp_dir[e[1]][e[2]].match_id = ids[k]

C20_Witness ==
    /\ ret.op = "get_competition_match_ids"
    /\ DOMAIN comp_dir = SeasonFns
    /\ \A fn \in SeasonFns : Len(comp_dir[fn]) >= 1
    /\ Len(ret.match_ids) >= 4
    /\ \E id \in MatchIds : \A k \in 1..Len(comp_dir["27.json"]) :
            comp_dir["27.json"][k].match_id # id

(***************************************************************************)
(* Properties of filter_events and create_shot_modelling_data              *)
(***************************************************************************)
(* The ids of the events of the match that the call of ret asks for: those *)
(* of its event_type on which every (col, val) of its dictionary holds.    *)
AskedIds ==
    LET f == ret.event_type_filter
        items == IF f.none THEN << >> ELSE f.items
    IN  {events[i]["id"] : i \in
            {j \in DOMAIN events :
                /\ events[j]["type_name"] = ret.event_type
                /\ \A k \in DOMAIN items :
                       Equals(events[j], items[k][1], items[k][2])}}

SeqRange(s) == {s[i] : i \in DOMAIN s}

(* The dictionary of the call of ret names columns of the events frame.    *)
FilterNamesColumns ==
    LET f == ret.event_type_filter
    IN  f.none \/ \A k \in DOMAIN f.items :
                     f.items[k][1] \in frame_events(events, m_id).columns

(* C21: filter_events returns exactly the events of its event_type on      *)
(* which every (col, val) of event_type_filter holds, all events of the    *)
(* type when the filter is None or empty, whatever the event_type; the     *)
(* dictionary names columns of the events frame.                           *)
C21_ExactlyTheAskedEvents ==
    (ret.op = "filter_events" /\ FilterNamesColumns) =>
        /\ ret.out.status = "ok"
        /\ SeqRange(ret.out.frame.index) = AskedIds
        /\ Len(ret.out.frame.index) = Cardinality(AskedIds)

(* The calls of C21 that return: there the frame holds exactly the asked   *)
(* events.                                                                 *)
C21_ReturnedAreAsked ==
    (ret.op = "filter_events" /\ ret.out.status = "ok") =>
        /\ SeqRange(ret.out.frame.index) = AskedIds
        /\ Len(ret.out.frame.index) = Cardinality(AskedIds)

(* A filter on the id of a shot of the match.                              *)
C21_IdFilterRaises ==
    /\ ret.op = "filter_events"
    /\ ret.event_type = "Shot"
    /\ ~ret.event_type_filter.none
    /\ ret.event_type_filter.items = <<<<"id", 1>>>>
    /\ events[1]["type_name"] = "Shot"
    /\ ret.out.status = "KeyError"
    /\ ret.out.key = "id"

(* The rows of la_liga_shots and of la_liga_shots_model_data, once both    *)
(* cells have run.                                                         *)
ShotTableBuilt ==
    /\ "rows" \in DOMAIN la_liga_shots
    /\ "rows" \in DOMAIN la_liga_shots_model_data

(* C22: create_shot_modelling_data keeps every input shot, in order and    *)
(* under its label, sets is_goal to 1 for the shots whose shot_outcome_id  *)
(* is 97 and to 0 for every other shot, and its output has the columns X,  *)
(* Y, is_goal and statsbomb_xg and no other.                               *)
C22_IsGoalRowsColumns ==
    ShotTableBuilt =>
        LET shots == la_liga_shots
            out == la_liga_shots_model_data
        IN  /\ out.index = shots.index
            /\ DOMAIN out.rows = DOMAIN shots.rows
            /\ out.columns = {"X", "Y", "is_goal", "statsbomb_xg"}
            /\ \A i \in DOMAIN out.rows :
                   /\ DOMAIN out.rows[i] = out.columns
                   /\ out.rows[i].is_goal \in {0, 1}
                   /\ out.rows[i].is_goal = 1
                        <=> shots.rows[i]["shot_outcome_id"] = 97
                   /\ out.rows[i].statsbomb_xg
                        = shots.rows[i]["shot_statsbomb_xg"]

(* A table of two shots, a goal and a saved shot.                          *)
C22_Witness ==
    /\ ShotTableBuilt
    /\ Len(la_liga_shots_model_data.rows) = 2
    /\ la_liga_shots.rows[1]["shot_outcome_id"] = 97
    /\ la_liga_shots.rows[2]["shot_outcome_id"] = 100
    /\ la_liga_shots_model_data.rows[1].is_goal = 1
    /\ la_liga_shots_model_data.rows[2].is_goal = 0

(* C23: for every shot the output X and Y are the two components of the    *)
(* StatsBomb-to-Wyscout transform of the shot's original location, and     *)
(* the Y conversion hands transform that original location, not a pair     *)
(* holding the converted X.                                                *)
C23_BothFromOriginalLocation ==
    (ShotTableBuilt /\ ret.op = "create_shot_modelling_data") =>
        \A i \in DOMAIN la_liga_shots_model_data.rows :
            LET location == la_liga_shots.rows[i]["location"]
                converted == statsbomb_to_wyscout(location[1], location[2])
            IN  /\ la_liga_shots_model_data.rows[i].X = converted[1]
                /\ la_liga_shots_model_data.rows[i].Y = converted[2]
                /\ ret.trace[i] = location

(* The values alone: X and Y are the components of the transform of the    *)
(* original location.                                                      *)
C23_ValuesFromOriginalLocation ==
    (ShotTableBuilt /\ ret.op = "create_shot_modelling_data") =>
        \A i \in DOMAIN la_liga_shots_model_data.rows :
            LET location == la_liga_shots.rows[i]["location"]
                converted == statsbomb_to_wyscout(location[1], location[2])
            IN  /\ la_liga_shots_model_data.rows[i].X = converted[1]
                /\ la_liga_shots_model_data.rows[i].Y = converted[2]

(* The shot at (111.5, 33.2): X is 92.33, Y is 41.27, and the Y           *)
(* conversion was handed (92.33, 33.2).                                    *)
C23_ConvertedXFedToY ==
    /\ ShotTableBuilt
    /\ ret.op = "create_shot_modelling_data"
    /\ Len(la_liga_shots.rows) >= 1
    /\ la_liga_shots.rows[1]["location"] = <<11150, 3320>>
    /\ la_liga_shots_model_data.rows[1].X = 9233
    /\ ret.trace[1] = <<9233, 3320>>

(***************************************************************************)
(* Properties of the fit state of the xG model                             *)
(***************************************************************************)
(* C24: the model directory starts without a file, and a file comes to     *)
(* be there only by a save_model under its name; compute_xg for a name     *)
(* that has no file ends with an error and without a probability; a        *)
(* save_model replaces what its file held by its own coefficients, every   *)
(* other step leaves each file as it is, and compute_xg evaluates with the *)
(* coefficients its file holds, which are therefore those of the most      *)
(* recent save_model under that name.                                      *)
C24_PredictionOnlyWhenFit ==
    /\ model_files = << >>
    /\ [][/\ \A f \in FileNames :
                IF ret'.op = "save_model" /\ ret'.model_fn = f
                THEN /\ f \in DOMAIN model_files'
                     /\ model_files'[f] = pickle_dump(ret'.params)
                ELSE IF f \in DOMAIN model_files
                THEN f \in DOMAIN model_files'
                       /\ model_files'[f] = model_files[f]
                ELSE f \notin DOMAIN model_files'
          /\ ret'.op = "compute_xg" =>
                IF ret'.model_fn \notin DOMAIN model_files
                THEN /\ ret'.out.status # "ok"
                     /\ "xg" \notin DOMAIN ret'.out
                ELSE ret'.out.status = "ok" =>
                       ret'.out.params
                         = pickle_load(model_files'[ret'.model_fn])]_vars

(* compute_xg for a name without a file, while the other name has one.     *)
C24_Witness ==
    /\ ret.op = "compute_xg"
    /\ ret.model_fn \notin DOMAIN model_files
    /\ ret.out.status = "FileNotFoundError"
    /\ DOMAIN model_files # {}

(***************************************************************************)
(* Properties of the shot geometry: symmetry and the add-pi branch         *)
(***************************************************************************)
(* C25: for x, y in [0, 100] transform_coordinates_for_computation,        *)
(* compute_shot_distance and compute_shot_angle return at (x, y) what      *)
(* they return at (x, 100 - y), an error of compute_shot_angle included.   *)
C25_MirrorSymmetry ==
    InDomain =>
        /\ ret.op = "transform_coordinates_for_computation"
             => <<ret.t_x, ret.t_y>>
                  = transform_coordinates_for_computation(xc, Hundred - yc)
        /\ ret.op = "compute_shot_distance"
             => ret.dist = compute_shot_distance(xc, Hundred - yc)
        /\ ret.op = "compute_shot_angle"
             => LET mirrored == compute_shot_angle(xc, Hundred - yc)
                IN  /\ ret.status = mirrored.status
                    /\ ret.raw = mirrored.raw
                    /\ ret.angle = mirrored.angle

(* The transformation of a shot off the long axis, on the side y < 50.     *)
C25_Witness ==
    /\ ret.op = "transform_coordinates_for_computation"
    /\ InDomain
    /\ yc < Fifty
    /\ ret.t_y > 0
    /\ ret.t_y = transform_coordinates_for_computation(xc, Hundred - yc)[2]

(* The shot lies in front of the goal line, strictly inside the circle     *)
(* whose diameter is the goal mouth.                                       *)
InsideGoalCircle ==
    /\ xc < Hundred
    /\ NormSquared < (GoalWidth \div 2) * (GoalWidth \div 2)

OutsideGoalCircle ==
    /\ xc < Hundred
    /\ NormSquared > (GoalWidth \div 2) * (GoalWidth \div 2)

(* C26: for x, y in [0, 100] compute_shot_angle adds pi to the raw         *)
(* arctangent exactly when the shot is in front of the goal line and       *)
(* strictly inside the circle on the goal mouth; in front of the goal line *)
(* and outside that circle the result is strictly between 0 and pi/2.      *)
C26_AddPiExactlyInsideCircle ==
    (ret.op = "compute_shot_angle" /\ InDomain)
        => /\ (ret.status = "ok" /\ ret.angle = ret.raw + Pi)
                <=> InsideGoalCircle
           /\ OutsideGoalCircle
                => /\ ret.status = "ok"
                   /\ ret.angle = ret.raw
                   /\ 0 < ret.angle
                   /\ 2 * ret.angle < Pi

(* A shot inside the circle, off the long axis, that took the add-pi       *)
(* branch.                                                                 *)
C26_Witness ==
    /\ ret.op = "compute_shot_angle"
    /\ InDomain
    /\ InsideGoalCircle
    /\ yc # Fifty
    /\ ret.raw < 0
    /\ ret.angle = ret.raw + Pi

(* A shot just outside the circle, whose angle is close below pi/2.        *)
C26_WitnessOutside ==
    /\ ret.op = "compute_shot_angle"
    /\ InDomain
    /\ OutsideGoalCircle
    /\ 4 * ret.angle > Pi
    /\ 2 * ret.angle < Pi

(* C27: at every X and Y of the shot table, whole hundredths in [0, 100],  *)
(* the denominator mx^2 + cy^2 - (7.32/2)^2 of compute_shot_angle is       *)
(* non-zero in exact arithmetic, and the division does not raise.          *)
C27_DenominatorNonZero ==
    ret.op = "divide_for_angle" =>
        LET row == la_liga_shots_model_data.rows[1]
        IN  (row.X \in 0..10000 /\ row.Y \in 0..10000)
                => /\ ret.den # 0
                   /\ ret.status = "ok"

(* The point of the table nearest to the circle: (97.25, 53.46), where     *)
(* the denominator is 229 squared units, 0.00006 square metres.            *)
C27_Witness ==
    /\ ret.op = "divide_for_angle"
    /\ la_liga_shots_model_data.rows[1].X = 9725
    /\ la_liga_shots_model_data.rows[1].Y = 5346
    /\ ret.den = 229
    /\ ret.status = "ok"

====
